---- MODULE Spec2Model ----
(***************************************************************************)
(* GroupListItem (vue-client/src/pages/groupList/GroupListItem.js): the    *)
(* constructor, the three factories fromConnection, fromConnectionGroup    *)
(* and fromSharingProfile, and the two accessors getActiveConnections and  *)
(* getClientIdentifier.                                                    *)
(*                                                                         *)
(* JavaScript values are modelled as follows.  Primitive values are        *)
(* strings: "undefined", "null", "true", "false", the type strings, and    *)
(* the numbers of active connections as numerals ("0", "1", ...).  An      *)
(* object is a record; a property the object does not have is a field the  *)
(* record does not have.  A reference to a source entity (connection,      *)
(* connection group, sharing profile) is its address in heap, so that two  *)
(* holders of the reference see the same, mutable, entity.  A closure is a *)
(* record naming its function and holding the variables it captured.       *)
(***************************************************************************)
EXTENDS Integers, Sequences, FiniteSets, TLC

\* Largest number of source entities of an entity tree in SpecBuild and in Spec.
MaxEntities == 4
MaxAccessEntities == 3

VARIABLES
    heap,       \* the source entities, by address
    args,       \* the arguments of the call that built item
    item,       \* the GroupListItem the call returned (the root of the tree)
    op,         \* the most recent operation
    target,     \* the path, from item, of the node an accessor was called on
    returned,   \* what the accessor returned
    calls       \* the collaborators the most recent operation invoked, in order

vars == <<heap, args, item, op, target, returned, calls>>

-----------------------------------------------------------------------------
(* JavaScript helpers *)

Has(obj, f) == f \in DOMAIN obj

\* obj.f, undefined when obj has no such property
Prop(obj, f) == IF Has(obj, f) THEN obj[f] ELSE "undefined"

JSBool(b) == IF b THEN "true" ELSE "false"

\* array.forEach(function (child) { children.push(F(child)) }) leaves in
\* children the sequence [i \in 1..Len(array) |-> F(array[i])]; the factories
\* below write it that way.

\* The concatenation, in order, of a sequence of traces.
RECURSIVE Flatten(_)
Flatten(traces) ==
    IF Len(traces) = 0 THEN <<>>
    ELSE Head(traces) \o Flatten(Tail(traces))

-----------------------------------------------------------------------------
(* Collaborators that are imported, not defined, by GroupListItem.js *)

ClientIdentifierTypes == [CONNECTION |-> "c", CONNECTION_GROUP |-> "g"]

ConnectionGroupType == [ORGANIZATIONAL |-> "ORGANIZATIONAL", BALANCING |-> "BALANCING"]

\* ClientIdentifier.toString: an opaque, injective encoding of its argument
ClientIdentifierToString(id) ==
    id.id \o "|" \o id.type \o "|" \o id.dataSource

-----------------------------------------------------------------------------
(* GroupListItem.Type *)

Type == [CONNECTION |-> "connection",
         CONNECTION_GROUP |-> "connection-group",
         SHARING_PROFILE |-> "sharing-profile"]

(* The constructor.  template is a record holding the properties given. *)
GroupListItem(template) ==
    [dataSource |-> Prop(template, "dataSource"),
     identifier |-> Prop(template, "identifier"),
     name |-> Prop(template, "name"),
     protocol |-> Prop(template, "protocol"),
     children |-> IF Has(template, "children") THEN template.children ELSE <<>>,
     type |-> Prop(template, "type"),
     expandable |-> Prop(template, "expandable"),
     balancing |-> Prop(template, "balancing"),
     expanded |-> Prop(template, "expanded"),
     getActiveConnections |->
         IF Has(template, "getActiveConnections")
         THEN template.getActiveConnections
         ELSE [fn |-> "GroupListItem.getActiveConnections"],
     getClientIdentifier |->
         IF Has(template, "getClientIdentifier")
         THEN template.getClientIdentifier
         ELSE [fn |-> "GroupListItem.getClientIdentifier"],
     wrappedItem |-> Prop(template, "wrappedItem"),
     weight |-> IF Has(template, "weight") THEN template.weight ELSE 0]

\* The collaborators the constructor invokes: none.
GroupListItemCalls(template) == <<>>

-----------------------------------------------------------------------------
(* The factories.  An entity argument is a reference into heap. *)

\* flag !== false, the test each factory applies to an inclusion flag
NotFalse_DefaultedTrue(flag) == TRUE

NotFalse_Truthy(flag) == flag = "true"

NotFalse(flag) == flag # "false"

fromSharingProfile(dataSource, sharingProfile) ==
    GroupListItem(
        [name |-> Prop(heap[sharingProfile], "name"),
         identifier |-> Prop(heap[sharingProfile], "identifier"),
         dataSource |-> dataSource,
         type |-> Type.SHARING_PROFILE,
         wrappedItem |-> sharingProfile])

fromSharingProfileCalls(dataSource, sharingProfile) ==
    GroupListItemCalls([wrappedItem |-> sharingProfile])

\* fromConnection with unshift in place of push
fromConnection_Unshift(dataSource, connection, includeSharingProfiles, countActiveConnections) ==
    LET sp == heap[connection].sharingProfiles
        children ==
            IF Has(heap[connection], "sharingProfiles") /\ NotFalse(includeSharingProfiles)
            THEN [i \in 1..Len(sp) |-> fromSharingProfile(dataSource, sp[Len(sp) + 1 - i])]
            ELSE <<>>
    IN  GroupListItem(
            [name |-> Prop(heap[connection], "name"),
             identifier |-> Prop(heap[connection], "identifier"),
             protocol |-> Prop(heap[connection], "protocol"),
             dataSource |-> dataSource,
             expandable |-> JSBool(NotFalse(includeSharingProfiles)),
             type |-> Type.CONNECTION,
             children |-> children,
             getActiveConnections |->
                 [fn |-> "fromConnection.getActiveConnections",
                  dataSource |-> dataSource,
                  connection |-> connection,
                  countActiveConnections |-> countActiveConnections],
             wrappedItem |-> connection])

fromConnection(dataSource, connection, includeSharingProfiles, countActiveConnections) ==
    LET addSharingProfile(child) == fromSharingProfile(dataSource, child)
        children ==
            IF Has(heap[connection], "sharingProfiles") /\ NotFalse(includeSharingProfiles)
            THEN [i \in 1..Len(heap[connection].sharingProfiles) |->
                     addSharingProfile(heap[connection].sharingProfiles[i])]
            ELSE <<>>
    IN  GroupListItem(
            [name |-> Prop(heap[connection], "name"),
             identifier |-> Prop(heap[connection], "identifier"),
             protocol |-> Prop(heap[connection], "protocol"),
             dataSource |-> dataSource,
             expandable |-> JSBool(NotFalse(includeSharingProfiles)),
             type |-> Type.CONNECTION,
             children |-> children,
             getActiveConnections |->
                 [fn |-> "fromConnection.getActiveConnections",
                  dataSource |-> dataSource,
                  connection |-> connection,
                  countActiveConnections |-> countActiveConnections],
             wrappedItem |-> connection])

\* fromConnection counting the active connections while it builds
fromConnectionCalls_Eager(dataSource, connection, includeSharingProfiles, countActiveConnections) ==
    IF countActiveConnections # "undefined"
    THEN <<[callee |-> countActiveConnections, dataSource |-> dataSource,
            entity |-> connection, result |-> "null"]>>
    ELSE <<>>

\* The collaborators fromConnection invokes while it builds.
fromConnectionCalls(dataSource, connection, includeSharingProfiles, countActiveConnections) ==
    LET addSharingProfile(child) == fromSharingProfileCalls(dataSource, child)
    IN  (IF Has(heap[connection], "sharingProfiles") /\ NotFalse(includeSharingProfiles)
         THEN Flatten([i \in 1..Len(heap[connection].sharingProfiles) |->
                          addSharingProfile(heap[connection].sharingProfiles[i])])
         ELSE <<>>)
        \o GroupListItemCalls([wrappedItem |-> connection])

\* ConnectionGroupItem with balancing set for every group not organizational
ConnectionGroupItem_NotOrganizational(dataSource, connectionGroup, children, countActiveConnectionGroups) ==
    GroupListItem(
        [name |-> Prop(heap[connectionGroup], "name"),
         identifier |-> Prop(heap[connectionGroup], "identifier"),
         dataSource |-> dataSource,
         type |-> Type.CONNECTION_GROUP,
         balancing |-> JSBool(Prop(heap[connectionGroup], "type")
                                 # ConnectionGroupType.ORGANIZATIONAL),
         expandable |-> "true",
         children |-> children,
         getActiveConnections |->
             [fn |-> "fromConnectionGroup.getActiveConnections",
              dataSource |-> dataSource,
              connectionGroup |-> connectionGroup,
              countActiveConnectionGroups |-> countActiveConnectionGroups],
         wrappedItem |-> connectionGroup])

\* ConnectionGroupItem with expandable set only when there are children
ConnectionGroupItem_ExpandableIfChildren(dataSource, connectionGroup, children, countActiveConnectionGroups) ==
    GroupListItem(
        [name |-> Prop(heap[connectionGroup], "name"),
         identifier |-> Prop(heap[connectionGroup], "identifier"),
         dataSource |-> dataSource,
         type |-> Type.CONNECTION_GROUP,
         balancing |-> JSBool(Prop(heap[connectionGroup], "type")
                                 = ConnectionGroupType.BALANCING),
         expandable |-> JSBool(Len(children) > 0),
         children |-> children,
         getActiveConnections |->
             [fn |-> "fromConnectionGroup.getActiveConnections",
              dataSource |-> dataSource,
              connectionGroup |-> connectionGroup,
              countActiveConnectionGroups |-> countActiveConnectionGroups],
         wrappedItem |-> connectionGroup])

\* The item fromConnectionGroup returns, given the children it has converted.
ConnectionGroupItem(dataSource, connectionGroup, children, countActiveConnectionGroups) ==
    GroupListItem(
        [name |-> Prop(heap[connectionGroup], "name"),
         identifier |-> Prop(heap[connectionGroup], "identifier"),
         dataSource |-> dataSource,
         type |-> Type.CONNECTION_GROUP,
         balancing |-> JSBool(Prop(heap[connectionGroup], "type")
                                 = ConnectionGroupType.BALANCING),
         expandable |-> "true",
         children |-> children,
         getActiveConnections |->
             [fn |-> "fromConnectionGroup.getActiveConnections",
              dataSource |-> dataSource,
              connectionGroup |-> connectionGroup,
              countActiveConnectionGroups |-> countActiveConnectionGroups],
         wrappedItem |-> connectionGroup])

\* fromConnectionGroup with the child groups converted before the child connections
RECURSIVE fromConnectionGroup_GroupsFirst(_, _, _, _, _, _)
fromConnectionGroup_GroupsFirst(dataSource, connectionGroup, includeConnections, includeSharingProfiles, countActiveConnections, countActiveConnectionGroups) ==
    LET addChildConnection(child) ==
            fromConnection(dataSource, child, includeSharingProfiles,
                           countActiveConnections)
        addChildGroup(child) ==
            fromConnectionGroup_GroupsFirst(dataSource, child, includeConnections,
                                            includeSharingProfiles, countActiveConnections,
                                            countActiveConnectionGroups)
        groups ==
            IF Has(heap[connectionGroup], "childConnectionGroups")
            THEN [i \in 1..Len(heap[connectionGroup].childConnectionGroups) |->
                     addChildGroup(heap[connectionGroup].childConnectionGroups[i])]
            ELSE <<>>
        connections ==
            IF Has(heap[connectionGroup], "childConnections") /\ NotFalse(includeConnections)
            THEN [i \in 1..Len(heap[connectionGroup].childConnections) |->
                     addChildConnection(heap[connectionGroup].childConnections[i])]
            ELSE <<>>
    IN  ConnectionGroupItem(dataSource, connectionGroup, groups \o connections,
                            countActiveConnectionGroups)

RECURSIVE fromConnectionGroup(_, _, _, _, _, _)
fromConnectionGroup(dataSource, connectionGroup, includeConnections, includeSharingProfiles, countActiveConnections, countActiveConnectionGroups) ==
    LET addChildConnection(child) ==
            fromConnection(dataSource, child, includeSharingProfiles,
                           countActiveConnections)
        addChildGroup(child) ==
            fromConnectionGroup(dataSource, child, includeConnections,
                                includeSharingProfiles, countActiveConnections,
                                countActiveConnectionGroups)
        connections ==
            IF Has(heap[connectionGroup], "childConnections") /\ NotFalse(includeConnections)
            THEN [i \in 1..Len(heap[connectionGroup].childConnections) |->
                     addChildConnection(heap[connectionGroup].childConnections[i])]
            ELSE <<>>
        groups ==
            IF Has(heap[connectionGroup], "childConnectionGroups")
            THEN [i \in 1..Len(heap[connectionGroup].childConnectionGroups) |->
                     addChildGroup(heap[connectionGroup].childConnectionGroups[i])]
            ELSE <<>>
    IN  ConnectionGroupItem(dataSource, connectionGroup, connections \o groups,
                            countActiveConnectionGroups)

\* The collaborators fromConnectionGroup invokes while it builds.
RECURSIVE fromConnectionGroupCalls(_, _, _, _, _, _)
fromConnectionGroupCalls(dataSource, connectionGroup, includeConnections, includeSharingProfiles, countActiveConnections, countActiveConnectionGroups) ==
    LET addChildConnection(child) ==
            fromConnectionCalls(dataSource, child, includeSharingProfiles,
                                countActiveConnections)
        addChildGroup(child) ==
            fromConnectionGroupCalls(dataSource, child, includeConnections,
                                     includeSharingProfiles, countActiveConnections,
                                     countActiveConnectionGroups)
    IN  (IF Has(heap[connectionGroup], "childConnections") /\ NotFalse(includeConnections)
         THEN Flatten([i \in 1..Len(heap[connectionGroup].childConnections) |->
                          addChildConnection(heap[connectionGroup].childConnections[i])])
         ELSE <<>>)
        \o (IF Has(heap[connectionGroup], "childConnectionGroups")
            THEN Flatten([i \in 1..Len(heap[connectionGroup].childConnectionGroups) |->
                             addChildGroup(heap[connectionGroup].childConnectionGroups[i])])
            ELSE <<>>)
        \o GroupListItemCalls([wrappedItem |-> connectionGroup])

-----------------------------------------------------------------------------
(* The accessors.  self is the GroupListItem the accessor is called on, as  *)
(* a method; result is what a supplied counter returns if it is invoked.   *)
(* Each yields the value returned and the collaborators invoked, in order. *)

\* the activeConnections of every connection and group when the tree is built
InitialActive == "0"

\* entity.activeConnections as the build left it, not as it is now
ReadActiveConnections_Snapshot(entity) == InitialActive

\* entity.activeConnections, read through the reference when the accessor runs
ReadActiveConnections(entity) == Prop(heap[entity], "activeConnections")

\* the getter consulted only when the entity itself has no count
CountActive_EntityFirst(counter, dataSource, entity, result) ==
    IF counter # "undefined" /\ ReadActiveConnections(entity) \in {"undefined", "null"}
    THEN [value |-> result,
          calls |-> <<[callee |-> counter, dataSource |-> dataSource,
                       entity |-> entity, result |-> result]>>]
    ELSE [value |-> ReadActiveConnections(entity), calls |-> <<>>]

\* "Use getter, if provided", else the entity's own count: the body the two
\* getActiveConnections closures share
CountActive(counter, dataSource, entity, result) ==
    IF counter # "undefined"
    THEN [value |-> result,
          calls |-> <<[callee |-> counter, dataSource |-> dataSource,
                       entity |-> entity, result |-> result]>>]
    ELSE [value |-> ReadActiveConnections(entity), calls |-> <<>>]

getActiveConnections(self, result) ==
    LET f == self.getActiveConnections
    IN  CASE f.fn = "GroupListItem.getActiveConnections" ->
                [value |-> "null", calls |-> <<>>]
          [] f.fn = "fromConnection.getActiveConnections" ->
                CountActive(f.countActiveConnections, f.dataSource, f.connection, result)
          [] f.fn = "fromConnectionGroup.getActiveConnections" ->
                LET r == CountActive(f.countActiveConnectionGroups, f.dataSource,
                                     f.connectionGroup, result)
                IN  [value |-> r.value,
                     calls |-> <<[callee |-> "console.log"]>> \o r.calls]
          [] OTHER -> [value |-> f.returns, calls |-> <<>>]

\* getClientIdentifier encoding an identifier whatever the type of the item
getClientIdentifier_AnyType(self) ==
    LET f == self.getClientIdentifier
        id == [dataSource |-> self.dataSource,
               type |-> IF self.type = Type.CONNECTION
                        THEN ClientIdentifierTypes.CONNECTION
                        ELSE ClientIdentifierTypes.CONNECTION_GROUP,
               id |-> self.identifier]
    IN  IF f.fn = "GroupListItem.getClientIdentifier"
        THEN [value |-> ClientIdentifierToString(id),
              calls |-> <<[callee |-> "ClientIdentifier.toString", id |-> id]>>]
        ELSE [value |-> f.returns, calls |-> <<>>]

getClientIdentifier(self) ==
    LET f == self.getClientIdentifier
        encode(id) == [value |-> ClientIdentifierToString(id),
                       calls |-> <<[callee |-> "ClientIdentifier.toString",
                                    id |-> id]>>]
    IN  IF f.fn = "GroupListItem.getClientIdentifier"
        THEN IF self.type = Type.CONNECTION
             THEN encode([dataSource |-> self.dataSource,
                          type |-> ClientIdentifierTypes.CONNECTION,
                          id |-> self.identifier])
             ELSE IF self.type = Type.CONNECTION_GROUP
             THEN encode([dataSource |-> self.dataSource,
                          type |-> ClientIdentifierTypes.CONNECTION_GROUP,
                          id |-> self.identifier])
             ELSE [value |-> "null", calls |-> <<>>]
        ELSE [value |-> f.returns, calls |-> <<>>]

-----
(* Trees of GroupListItems: a node is addressed by the path of child       *)
(* indices that leads to it from the root.                                 *)

RECURSIVE Paths(_)
Paths(node) ==
    {<<>>} \cup UNION {{<<i>> \o p : p \in Paths(node.children[i])} :
                          i \in 1..Len(node.children)}

RECURSIVE NodeAt(_, _)
NodeAt(node, path) ==
    IF path = <<>> THEN node
    ELSE NodeAt(node.children[Head(path)], Tail(path))

-----------------------------------------------------------------------------
(* The source entities.  A shape gives, for each address, the kind of the  *)
(* entity there and the address of its parent; address 1 holds the root    *)
(* connection group.  Children are listed in the order of their addresses. *)

RECURSIVE Shapes(_)
Shapes(n) ==
    IF n = 1 THEN {<<[kind |-> "group", parent |-> 0]>>}
    ELSE LET ParentsOf(s, k) ==
                 {j \in 1..Len(s) :
                      s[j].kind = (IF k = "profile" THEN "connection" ELSE "group")}
         IN  {Append(s, [kind |-> k, parent |-> j]) :
                  <<s, k, j>> \in
                      {t \in Shapes(n - 1) \X {"group", "connection", "profile"} \X (1..(n - 1)) :
                           t[3] \in ParentsOf(t[1], t[2])}}

RECURSIVE Ascending(_)
Ascending(S) ==
    IF S = {} THEN <<>>
    ELSE LET m == CHOOSE x \in S : \A y \in S : x <= y
         IN  <<m>> \o Ascending(S \ {m})

GroupTypes == <<ConnectionGroupType.BALANCING, ConnectionGroupType.ORGANIZATIONAL, "undefined">>

Protocols == <<"vnc", "rdp">>

\* The entity at address i of shape s.  A collection with no members is
\* an empty array when emptyAs = "empty" and is not present otherwise; the
\* types of the groups vary with seed.
EntityOf(s, i, emptyAs, seed) ==
    LET kids(k) == Ascending({j \in 1..Len(s) : s[j].parent = i /\ s[j].kind = k})
        optional(f, v) ==
            IF v = <<>> /\ emptyAs = "absent" THEN <<>> ELSE (f :> v)
        type == GroupTypes[((i + seed) % Len(GroupTypes)) + 1]
        id == [identifier |-> ToString(i), name |-> s[i].kind \o "-" \o ToString(i)]
    IN  CASE s[i].kind = "group" ->
                id @@ [activeConnections |-> InitialActive]
                   @@ (IF type = "undefined" THEN <<>> ELSE [type |-> type])
                   @@ optional("childConnections", kids("connection"))
                   @@ optional("childConnectionGroups", kids("group"))
          [] s[i].kind = "connection" ->
                id @@ [activeConnections |-> InitialActive,
                       protocol |-> Protocols[(i % Len(Protocols)) + 1]]
                   @@ optional("sharingProfiles", kids("profile"))
          [] OTHER -> id

Heaps(maxEntities, emptyAsSet, seeds) ==
    {[i \in 1..Len(s) |-> EntityOf(s, i, emptyAs, seed)] :
         <<s, emptyAs, seed>> \in
             (UNION {Shapes(n) : n \in 1..maxEntities}) \X emptyAsSet \X seeds}

IsConnection(e) == Has(heap[e], "protocol")

IsConnectionGroup(e) == Has(heap[e], "activeConnections") /\ ~Has(heap[e], "protocol")

IsSharingProfile(e) == ~Has(heap[e], "activeConnections")

-----------------------------------------------------------------------------
(* The inputs *)

DataSource == "mysql"

Flags == {"true", "false", "undefined"}

\* an omitted flag and a true one take the same branches: Spec draws from these
AccessFlags == {"false", "undefined"}

ConnectionCounters == {"undefined", "connectionCounter"}

GroupCounters == {"undefined", "groupCounter"}

\* what a counter may return, and what an entity's activeConnections may be set to
CounterResults == {"null", "2"}

ActiveValues == {"0", "1"}

\* templates given to the constructor directly: the standard types and a
\* custom one with the default accessors, and a custom type with a
\* getClientIdentifier of its own
Templates ==
    {[dataSource |-> DataSource, identifier |-> "x", name |-> "custom item", type |-> t] :
         t \in {"custom", Type.CONNECTION, Type.SHARING_PROFILE}}
    \cup {[dataSource |-> DataSource, identifier |-> "x", name |-> "custom item",
           type |-> "custom",
           getClientIdentifier |-> [fn |-> "custom", returns |-> "custom-id"]]}

NoItem == [children |-> <<>>]

NoArgs == [factory |-> "none"]

-----------------------------------------------------------------------------
(* The operations *)

Built(factory, entity, ic, isp, cc, cg, root, trace) ==
    /\ args' = [factory |-> factory, dataSource |-> DataSource, entity |-> entity,
                includeConnections |-> ic, includeSharingProfiles |-> isp,
                countActiveConnections |-> cc, countActiveConnectionGroups |-> cg]
    /\ item' = root
    /\ op' = factory
    /\ target' = <<>>
    /\ returned' = "undefined"
    /\ calls' = trace
    /\ UNCHANGED heap

BuildFromConnectionGroup(flags) ==
    /\ args = NoArgs
    /\ \E ic \in flags, isp \in flags, cc \in ConnectionCounters, cg \in GroupCounters :
          Built("fromConnectionGroup", 1, ic, isp, cc, cg,
                fromConnectionGroup(DataSource, 1, ic, isp, cc, cg),
                fromConnectionGroupCalls(DataSource, 1, ic, isp, cc, cg))

BuildFromConnection(flags) ==
    /\ args = NoArgs
    /\ \E c \in DOMAIN heap, isp \in flags, cc \in ConnectionCounters :
          /\ IsConnection(c)
          /\ Built("fromConnection", c, "undefined", isp, cc, "undefined",
                   fromConnection(DataSource, c, isp, cc),
                   fromConnectionCalls(DataSource, c, isp, cc))

BuildFromSharingProfile ==
    /\ args = NoArgs
    /\ \E p \in DOMAIN heap :
          /\ IsSharingProfile(p)
          /\ Built("fromSharingProfile", p, "undefined", "undefined", "undefined",
                   "undefined", fromSharingProfile(DataSource, p),
                   fromSharingProfileCalls(DataSource, p))

NewGroupListItem ==
    /\ args = NoArgs
    /\ \E template \in Templates :
          Built("GroupListItem", 0, "undefined", "undefined", "undefined",
                "undefined", GroupListItem(template), GroupListItemCalls(template))

\* The owner of the entities changes the number of active connections of one.
SetActiveConnections ==
    /\ args # NoArgs
    /\ \E e \in DOMAIN heap, v \in ActiveValues :
          /\ Has(heap[e], "activeConnections")
          /\ heap' = [heap EXCEPT ![e].activeConnections = v]
    /\ op' = "setActiveConnections"
    /\ target' = <<>>
    /\ returned' = "undefined"
    /\ calls' = <<>>
    /\ UNCHANGED <<args, item>>

CallGetActiveConnections ==
    /\ args # NoArgs
    /\ \E path \in Paths(item), result \in CounterResults :
          LET r == getActiveConnections(NodeAt(item, path), result)
          IN  /\ target' = path
              /\ returned' = r.value
              /\ calls' = r.calls
    /\ op' = "getActiveConnections"
    /\ UNCHANGED <<heap, args, item>>

CallGetClientIdentifier ==
    /\ args # NoArgs
    /\ \E path \in Paths(item) :
          LET r == getClientIdentifier(NodeAt(item, path))
          IN  /\ target' = path
              /\ returned' = r.value
              /\ calls' = r.calls
    /\ op' = "getClientIdentifier"
    /\ UNCHANGED <<heap, args, item>>

Start ==
    /\ args = NoArgs
    /\ item = NoItem
    /\ op = "none"
    /\ target = <<>>
    /\ returned = "undefined"
    /\ calls = <<>>

\* The life of one tree: built once, then read by the renderer while the
\* entities change under it.
Init ==
    /\ heap \in Heaps(MaxAccessEntities, {"absent"}, {0})
    /\ Start

Next ==
    \/ BuildFromConnectionGroup(AccessFlags)
    \/ BuildFromConnection(AccessFlags)
    \/ BuildFromSharingProfile
    \/ NewGroupListItem
    \/ SetActiveConnections
    \/ CallGetActiveConnections
    \/ CallGetClientIdentifier

Spec == Init /\ [][Next]_vars

\* The factories as functions of their arguments, over larger entity trees.
InitBuild ==
    /\ heap \in Heaps(MaxEntities, {"absent", "empty"}, 0..2)
    /\ Start

NextBuild ==
    \/ BuildFromConnectionGroup(Flags)
    \/ BuildFromConnection(Flags)
    \/ BuildFromSharingProfile

SpecBuild == InitBuild /\ [][NextBuild]_vars

-----------------------------------------------------------------------------
(* Properties.  They speak of the tree item through its paths, and of the  *)
(* source entities through heap.                                           *)

Factories == {"fromConnection", "fromConnectionGroup", "fromSharingProfile"}

\* the array entity e holds in property f; no array when it has no such property
ArrayOf(e, f) == IF Has(heap[e], f) THEN heap[e][f] ELSE <<>>

\* the types of the items of a sequence, and the entities they wrap
TypesOf(items) == [i \in 1..Len(items) |-> items[i].type]

WrappedBy(items) == [i \in 1..Len(items) |-> items[i].wrappedItem]

Repeat(x, n) == [i \in 1..n |-> x]

IsCounterCall(c) == c.callee \in {"connectionCounter", "groupCounter"}

CounterCalls(trace) == SelectSeq(trace, IsCounterCall)

\* the counter given, when item was built, for nodes of the type of n
CounterFor(n) ==
    IF args.factory \notin {"fromConnection", "fromConnectionGroup"} THEN "undefined"
    ELSE IF n.type = Type.CONNECTION THEN args.countActiveConnections
    ELSE IF n.type = Type.CONNECTION_GROUP THEN args.countActiveConnectionGroups
    ELSE "undefined"

\* C1: in a tree built by fromConnectionGroup, the children of every group
\* node, at every depth and for every setting of the flags, are the nodes of
\* the source group's childConnections (when connections are included), in
\* source order, followed by the nodes of its childConnectionGroups, in source
\* order; no connection node comes after a group node.
C1_ConnectionsPrecedeGroups ==
    args.factory = "fromConnectionGroup" =>
        \A p \in Paths(item) :
            LET n == NodeAt(item, p)
                cs == IF args.includeConnections # "false"
                      THEN ArrayOf(n.wrappedItem, "childConnections") ELSE <<>>
                gs == ArrayOf(n.wrappedItem, "childConnectionGroups")
            IN  n.type = Type.CONNECTION_GROUP =>
                    /\ WrappedBy(n.children) = cs \o gs
                    /\ TypesOf(n.children) = Repeat(Type.CONNECTION, Len(cs))
                                                \o Repeat(Type.CONNECTION_GROUP, Len(gs))
                    /\ \A i, j \in 1..Len(n.children) :
                          i < j /\ n.children[i].type = Type.CONNECTION_GROUP
                              => n.children[j].type # Type.CONNECTION

\* a group node below the root with a connection child and a group child
C1_Witness ==
    /\ args.factory = "fromConnectionGroup"
    /\ \E p \in Paths(item) :
          /\ p # <<>>
          /\ NodeAt(item, p).type = Type.CONNECTION_GROUP
          /\ TypesOf(NodeAt(item, p).children) = <<Type.CONNECTION, Type.CONNECTION_GROUP>>

\* C2: fromConnection, given a connection whose sharingProfiles is an array
\* and a flag that is true or omitted, returns a connection item with one
\* child per sharing profile, in source order, each a childless
\* sharing-profile item wrapping its profile, with its identifier and name.
C2_SharingProfileChildren ==
    (/\ args.factory = "fromConnection"
     /\ args.includeSharingProfiles \in {"true", "undefined"}
     /\ Has(heap[args.entity], "sharingProfiles")) =>
        LET sp == heap[args.entity].sharingProfiles
        IN  /\ item.type = Type.CONNECTION
            /\ Len(item.children) = Len(sp)
            /\ \A i \in 1..Len(sp) :
                  /\ item.children[i].type = Type.SHARING_PROFILE
                  /\ item.children[i].children = <<>>
                  /\ item.children[i].wrappedItem = sp[i]
                  /\ item.children[i].identifier = heap[sp[i]].identifier
                  /\ item.children[i].name = heap[sp[i]].name

\* a connection with two sharing profiles, built with the flag true
C2_Witness ==
    /\ args.factory = "fromConnection"
    /\ args.includeSharingProfiles = "true"
    /\ Has(heap[args.entity], "sharingProfiles")
    /\ Len(heap[args.entity].sharingProfiles) = 2
    /\ Len(item.children) = 2

\* C3: with includeSharingProfiles false, every connection item, whether
\* fromConnection returned it or it lies in a tree fromConnectionGroup
\* returned, has no children and is not expandable.
C3_NoSharingProfiles ==
    (/\ args.factory \in {"fromConnection", "fromConnectionGroup"}
     /\ args.includeSharingProfiles = "false") =>
        \A p \in Paths(item) :
            NodeAt(item, p).type = Type.CONNECTION =>
                /\ NodeAt(item, p).children = <<>>
                /\ NodeAt(item, p).expandable = "false"

\* a connection that has sharing profiles, converted below the root of a
\* group tree with the flag false
C3_Witness ==
    /\ args.factory = "fromConnectionGroup"
    /\ args.includeSharingProfiles = "false"
    /\ \E p \in Paths(item) :
          /\ NodeAt(item, p).type = Type.CONNECTION
          /\ ArrayOf(NodeAt(item, p).wrappedItem, "sharingProfiles") # <<>>

C6_Requirement(n) ==
    LET id(type) == [dataSource |-> n.dataSource, type |-> type, id |-> n.identifier]
        encoded(type) ==
            /\ returned = ClientIdentifierToString(id(type))
            /\ calls = <<[callee |-> "ClientIdentifier.toString", id |-> id(type)]>>
    IN  IF n.type = Type.CONNECTION THEN encoded(ClientIdentifierTypes.CONNECTION)
        ELSE IF n.type = Type.CONNECTION_GROUP
        THEN encoded(ClientIdentifierTypes.CONNECTION_GROUP)
        ELSE returned = "null" /\ calls = <<>>

\* C6 as claimed: getClientIdentifier returns null, without invoking the
\* encoder, on every item whose type is neither connection nor
\* connection-group, and the encoding of {dataSource, type, identifier} on
\* every item of those two types.
C6_AsClaimed ==
    op = "getClientIdentifier" => C6_Requirement(NodeAt(item, target))

\* C6 as amended: the same, on every item whose template gave no
\* getClientIdentifier of its own.
C6_DefaultAccessor ==
    (/\ op = "getClientIdentifier"
     /\ NodeAt(item, target).getClientIdentifier.fn = "GroupListItem.getClientIdentifier")
        => C6_Requirement(NodeAt(item, target))

\* the accessor called on an item fromSharingProfile returned
C6_Witness ==
    /\ op = "getClientIdentifier"
    /\ args.factory = "fromSharingProfile"
    /\ item.type = Type.SHARING_PROFILE
    /\ returned = "null"

\* C7: every group item of a tree fromConnectionGroup returned, at any depth,
\* has balancing true if the source group's type is the balancing type, and
\* false if it is any other type or absent.
C7_Balancing ==
    args.factory = "fromConnectionGroup" =>
        \A p \in Paths(item) :
            NodeAt(item, p).type = Type.CONNECTION_GROUP =>
                NodeAt(item, p).balancing =
                    (IF Has(heap[NodeAt(item, p).wrappedItem], "type")
                        /\ heap[NodeAt(item, p).wrappedItem].type = ConnectionGroupType.BALANCING
                     THEN "true" ELSE "false")

\* below the root, a balancing group and a group with no type
C7_Witness ==
    /\ args.factory = "fromConnectionGroup"
    /\ \E p, q \in Paths(item) \ {<<>>} :
          /\ NodeAt(item, p).balancing = "true"
          /\ NodeAt(item, q).balancing = "false"
          /\ NodeAt(item, q).type = Type.CONNECTION_GROUP
          /\ ~Has(heap[NodeAt(item, q).wrappedItem], "type")

\* C8: every group item of a tree fromConnectionGroup returned is expandable,
\* for every setting of the flags; one whose source group has no child
\* connections and no child groups, the arrays empty or absent, has the empty
\* sequence for children.
C8_GroupsExpandable ==
    args.factory = "fromConnectionGroup" =>
        \A p \in Paths(item) :
            NodeAt(item, p).type = Type.CONNECTION_GROUP =>
                /\ NodeAt(item, p).expandable = "true"
                /\ (ArrayOf(NodeAt(item, p).wrappedItem, "childConnections") = <<>>
                      /\ ArrayOf(NodeAt(item, p).wrappedItem, "childConnectionGroups") = <<>>)
                        => NodeAt(item, p).children = <<>>

\* a group below the root whose source has neither array, built with
\* connections left out
C8_Witness ==
    /\ args.factory = "fromConnectionGroup"
    /\ args.includeConnections = "false"
    /\ \E p \in Paths(item) \ {<<>>} :
          /\ NodeAt(item, p).type = Type.CONNECTION_GROUP
          /\ ~Has(heap[NodeAt(item, p).wrappedItem], "childConnections")
          /\ ~Has(heap[NodeAt(item, p).wrappedItem], "childConnectionGroups")
          /\ NodeAt(item, p).expandable = "true"

\* what C9 requires of the state an operation leaves
C9_After ==
    /\ op \in Factories => calls = <<>>
    /\ CounterCalls(calls) # <<>> => op = "getActiveConnections"
    /\ (op = "getActiveConnections" /\ CounterFor(NodeAt(item, target)) # "undefined")
          => Len(CounterCalls(calls)) = 1

\* C9: a factory invokes no counter and no encoder and leaves the source
\* entities as they were; a counter is invoked only by a call of
\* getActiveConnections, and by each such call on an item it was given for.
C9_NoCountingWhileBuilding ==
    [][C9_After' /\ (op' \in Factories => heap' = heap)]_vars

\* after a group tree was built with a connection counter, the accessor of a
\* connection item invoked it
C9_Witness ==
    /\ op = "getActiveConnections"
    /\ args.factory = "fromConnectionGroup"
    /\ NodeAt(item, target).type = Type.CONNECTION
    /\ Len(calls) = 1
    /\ calls[1].callee = "connectionCounter"

\* C10: the flags apply at every depth.  With includeConnections false the
\* tree holds group items only, the children of each being the items of its
\* source group's childConnectionGroups in source order; with it true or
\* omitted the tree has as many items as the source tree has groups and
\* connections and, unless includeSharingProfiles is false, sharing profiles.
C10_FlagsApplyToSubtree ==
    args.factory = "fromConnectionGroup" =>
        IF args.includeConnections = "false"
        THEN \A p \in Paths(item) :
                 /\ NodeAt(item, p).type = Type.CONNECTION_GROUP
                 /\ WrappedBy(NodeAt(item, p).children)
                        = ArrayOf(NodeAt(item, p).wrappedItem, "childConnectionGroups")
        ELSE Cardinality(Paths(item)) =
                 Cardinality({e \in DOMAIN heap : IsConnectionGroup(e)})
                 + Cardinality({e \in DOMAIN heap : IsConnection(e)})
                 + (IF args.includeSharingProfiles = "false" THEN 0
                    ELSE Cardinality({e \in DOMAIN heap : IsSharingProfile(e)}))

\* connections left out of a tree whose source has a group below the root
\* holding a connection
C10_Witness ==
    /\ args.factory = "fromConnectionGroup"
    /\ args.includeConnections = "false"
    /\ Cardinality(Paths(item)) = 2
    /\ \E g \in DOMAIN heap \ {1} : ArrayOf(g, "childConnections") # <<>>

====
